---------------------------- MODULE Spec2Model ----------------------------
(***************************************************************************)
(* State-machine model of scraper/transfermarkt_scraper.py: the four       *)
(* public entry points get_league_injuries, get_team_player_urls,          *)
(* get_player_injury_history and get_multiple_players_injury_history.      *)
(*                                                                         *)
(* Text that the code manipulates character by character (URLs, hrefs,     *)
(* cell values) is a sequence of one-character strings.  Identifiers the   *)
(* code only compares or concatenates (country names, slugs, codes,        *)
(* column labels, exception class names) are plain strings.                *)
(* An optional value is a sequence of length 0 (None) or 1.                *)
(* The HTTP transport, the HTML parser and pd.read_html are the            *)
(* environment: each call is served a page chosen nondeterministically.    *)
(***************************************************************************)
EXTENDS Integers, Sequences, FiniteSets, TLC

VARIABLES
    op,            \* entry point under call: "league", "roster", "history", "batch"
    pc,            \* "start" | "loop" | "done"
    country_name,  \* get_league_injuries argument (optional string)
    league_slug,   \* get_league_injuries argument (optional string)
    league_code,   \* get_league_injuries argument (optional string)
    team_url,      \* get_team_player_urls argument
    player_url,    \* get_player_injury_history argument
    player_urls,   \* get_multiple_players_injury_history argument
    pause,         \* pause argument (seconds)
    string_dtype,  \* dtype pandas gives a text column: "object" or "str"
    page,          \* the page the last GET was served (optional)
    outcome,       \* "none" | "returned" | "raised"
    error,         \* exception class when outcome = "raised"
    result,        \* returned value (optional)
    split_cols,    \* local split_cols of get_league_injuries (optional)
    gets,          \* URLs of the HTTP GETs issued, in order
    events,        \* "get" and "sleep" calls, in order
    log,           \* [WARN] lines printed: the URL each one names
    i,             \* batch: number of URLs the loop has consumed
    frames,        \* batch: local list frames
    attempts,      \* batch: URLs handed to get_player_injury_history
    outcomes       \* batch: what each of those calls did

vars == <<op, pc, country_name, league_slug, league_code, team_url, player_url,
          player_urls, pause, string_dtype, page, outcome, error, result,
          split_cols, gets, events, log, i, frames, attempts, outcomes>>

-----------------------------------------------------------------------------
(* Bounds of the model *)

MaxUrls == 3
MaxRows == 2
MaxAnchors == 2

-----------------------------------------------------------------------------
(* Optional values and nulls *)

None == <<>>
Some(x) == <<x>>
\* A null cell (None / NaN / pd.NA): no text equals it.
NA == <<"<NA>">>
\* Python truthiness of an optional string: None and "" are falsy.
Truthy(o) == o # None /\ o[1] # ""

-----------------------------------------------------------------------------
(* Text: sequences of characters *)

\* The characters of the model, in code point order.
Alphabet ==
    <<"\n", " ", "#", ".", "/", "1", "2", "3", "4", "5", "7", "8", "9", ":",
      "=", "?", "D", "F", "J", "K", "M", "X",
      "a", "c", "d", "e", "f", "g", "h", "i", "k", "l", "m", "n", "o", "p",
      "r", "s", "t", "u", "v", "x", "z">>

Ord(c) == CHOOSE k \in 1..Len(Alphabet) : Alphabet[k] = c

\* str < str: comparison by code points, a proper prefix is smaller.
RECURSIVE LexLess(_, _)
LexLess(a, b) ==
    IF b = <<>> THEN FALSE
    ELSE IF a = <<>> THEN TRUE
    ELSE IF a[1] = b[1] THEN LexLess(Tail(a), Tail(b))
    ELSE Ord(a[1]) < Ord(b[1])

StartsWith(s, pat) ==
    Len(pat) <= Len(s) /\ SubSeq(s, 1, Len(pat)) = pat

\* str.find + 1: position of the first occurrence of pat in s, 0 if none.
IndexOf(s, pat) ==
    LET hits == {k \in 1..(Len(s) - Len(pat) + 1) :
                    SubSeq(s, k, k + Len(pat) - 1) = pat}
    IN IF hits = {} THEN 0 ELSE CHOOSE k \in hits : \A j \in hits : k <= j

Contains(s, pat) == IndexOf(s, pat) > 0

\* re.sub(pat, rep, s) for a literal pattern: every non-overlapping
\* occurrence, left to right.
RECURSIVE ReplaceAll(_, _, _)
ReplaceAll(s, pat, rep) ==
    LET k == IndexOf(s, pat)
    IN IF k = 0 THEN s
       ELSE SubSeq(s, 1, k - 1) \o rep
            \o ReplaceAll(SubSeq(s, k + Len(pat), Len(s)), pat, rep)

\* str.rstrip(ch): drop every trailing ch.
RECURSIVE RStrip(_, _)
RStrip(s, ch) ==
    IF s # <<>> /\ s[Len(s)] = ch THEN RStrip(SubSeq(s, 1, Len(s) - 1), ch)
    ELSE s

IsSpace(c) == c \in {" ", "\n"}

RECURSIVE LStripWs(_)
LStripWs(s) == IF s # <<>> /\ IsSpace(s[1]) THEN LStripWs(Tail(s)) ELSE s

RECURSIVE RStripWs(_)
RStripWs(s) ==
    IF s # <<>> /\ IsSpace(s[Len(s)]) THEN RStripWs(SubSeq(s, 1, Len(s) - 1))
    ELSE s

\* str.strip(): leading and trailing whitespace only.
StripWs(s) == LStripWs(RStripWs(s))

\* str.split(sep, 1): at most one split, at the first sep.
SplitN1(s, sep) ==
    LET k == IndexOf(s, <<sep>>)
    IN IF k = 0 THEN <<s>>
       ELSE <<SubSeq(s, 1, k - 1), SubSeq(s, k + 1, Len(s))>>

\* str.split(sep)[0]: the text before the first sep.
BeforeFirst(s, sep) ==
    LET k == IndexOf(s, <<sep>>)
    IN IF k = 0 THEN s ELSE SubSeq(s, 1, k - 1)

Range(f) == {f[k] : k \in DOMAIN f}

RECURSIVE Flatten(_)
Flatten(ss) == IF ss = <<>> THEN <<>> ELSE Head(ss) \o Flatten(Tail(ss))

-----------------------------------------------------------------------------
(* Tables.  A DataFrame is [columns, rows]: the column labels in order and *)
(* the rows in order, each row one cell per column.  A cell is text, a     *)
(* number (tagged, so that no text equals it) or NA.                       *)

NumCells == {<<"int64:0">>, <<"int64:7">>}
IsNum(c) == c \in NumCells

DataFrame(cols, rows) == [columns |-> cols, rows |-> rows]

\* pd.DataFrame(): no columns, no rows.
EmptyDataFrame == DataFrame(<<>>, <<>>)

ColumnIndexes(df, label) == {j \in 1..Len(df.columns) : df.columns[j] = label}

\* Series.dtype of column j.  A column without values, or holding only
\* nulls, is "object"; a column of numbers is "int64"; a column of text has
\* pandas' string dtype, "object" before pandas 3 and "str" from pandas 3.
ColDtype(df, j, sd) ==
    IF df.rows = <<>> \/ \A r \in 1..Len(df.rows) : df.rows[r][j] = NA
    THEN "object"
    ELSE IF \A r \in 1..Len(df.rows) : IsNum(df.rows[r][j]) THEN "int64"
    ELSE sd

\* Series.str.strip() on one value: nulls stay null.
StrStrip(c) == IF c = NA \/ IsNum(c) THEN c ELSE StripWs(c)

\* df.apply(lambda col: col.str.strip() if col.dtype == "object" else col)
ApplyStrip(df, sd) ==
    DataFrame(df.columns,
              [r \in 1..Len(df.rows) |->
                  [j \in 1..Len(df.columns) |->
                      IF ColDtype(df, j, sd) = "object"
                      THEN StrStrip(df.rows[r][j])
                      ELSE df.rows[r][j]]])

\* A column header as pd.read_html yields it is [multi, lvl0, lvl1]: a flat
\* Index holds the labels lvl0; a MultiIndex holds the pairs
\* (lvl0[j], lvl1[j]), whose level 1 is optional.
\* _flatten_columns: level 1 unless it is "" or None, else level 0.
FlattenLabel(lvl0, lvl1) ==
    IF lvl1 # None /\ lvl1[1] # "" THEN lvl1[1] ELSE lvl0

_flatten_columns(cols) ==
    IF cols.multi
    THEN [j \in 1..Len(cols.lvl0) |-> FlattenLabel(cols.lvl0[j], cols.lvl1[j])]
    ELSE cols.lvl0

\* sess.get(...) followed by resp.raise_for_status(): the exception raised,
\* if any.
FetchError(pg) ==
    IF pg.status = "network_error" THEN Some("ConnectionError")
    ELSE IF pg.status = "http_error" THEN Some("HTTPError")
    ELSE None

\* Faulty variant of LocateTable: a page without such a table is read as a
\* frame without columns and rows instead of being reported.
LocateTableOrEmpty(pg) ==
    IF pg.table = None
    THEN Some([columns |-> [multi |-> FALSE, lvl0 |-> <<>>, lvl1 |-> <<>>],
               rows |-> <<>>])
    ELSE pg.table

\* soup.find("table", class_="items") and pd.read_html(...)[0]: the frame
\* read from the first table of class "items", None when the page has none.
LocateTable(pg) == pg.table

\* time.sleep(secs) raises ValueError for a negative length.
SleepError(secs) == IF secs < 0 THEN Some("ValueError") ELSE None

\* What a call did: how it ended, the value it returned, the GETs it issued,
\* the sleep calls it made, and (league) its local split_cols.
Returned(value, urls, sleeps, sc) ==
    [outcome |-> "returned", error |-> "", result |-> Some(value),
     gets |-> urls, sleeps |-> sleeps, split_cols |-> sc]

Raised(cls, urls, sleeps, sc) ==
    [outcome |-> "raised", error |-> cls, result |-> None,
     gets |-> urls, sleeps |-> sleeps, split_cols |-> sc]

-----------------------------------------------------------------------------
(* 1) get_league_injuries *)

BASE_URL == "https://www.transfermarkt.us"

LEAGUE_MAP ==
    ("Spain" :> <<"laliga", "ES1">>) @@
    ("England" :> <<"premier-league", "GB1">>) @@
    ("Italy" :> <<"serie-a", "IT1">>) @@
    ("Germany" :> <<"bundesliga", "L1">>) @@
    ("France" :> <<"ligue-1", "FR1">>)

\* Faulty variant of ResolveTarget: an unmapped country name falls back to
\* the slug and code given.
ResolveFallsBack(cn, slug, code) ==
    IF Truthy(cn) /\ cn[1] \in DOMAIN LEAGUE_MAP
    THEN [ok |-> TRUE, slug |-> LEAGUE_MAP[cn[1]][1], code |-> LEAGUE_MAP[cn[1]][2]]
    ELSE IF ~Truthy(slug) \/ ~Truthy(code)
    THEN [ok |-> FALSE, slug |-> "", code |-> ""]
    ELSE [ok |-> TRUE, slug |-> slug[1], code |-> code[1]]

\* Lines 53-59: the (slug, code) pair the call will use, or the ValueError.
ResolveTarget(cn, slug, code) ==
    IF Truthy(cn)
    THEN IF cn[1] \in DOMAIN LEAGUE_MAP
         THEN [ok |-> TRUE, slug |-> LEAGUE_MAP[cn[1]][1],
               code |-> LEAGUE_MAP[cn[1]][2]]
         ELSE [ok |-> FALSE, slug |-> "", code |-> ""]
    ELSE IF ~Truthy(slug) \/ ~Truthy(code)
    THEN [ok |-> FALSE, slug |-> "", code |-> ""]
    ELSE [ok |-> TRUE, slug |-> slug[1], code |-> code[1]]

LeagueUrl(slug, code) ==
    BASE_URL \o "/" \o slug \o "/verletztespieler/wettbewerb/" \o code

\* str.split("\n", n=-1): a split at every newline.
RECURSIVE SplitAll(_, _)
SplitAll(s, sep) ==
    LET k == IndexOf(s, <<sep>>)
    IN IF k = 0 THEN <<s>>
       ELSE <<SubSeq(s, 1, k - 1)>> \o SplitAll(SubSeq(s, k + 1, Len(s)), sep)

\* Faulty variant of SplitPlayerPosition: no limit on the number of splits.
SplitEveryNewline(value) == SplitAll(value, "\n")

\* .str.split("\n", n=1) on one value of the "Player/Position" column.
SplitPlayerPosition(value) == SplitN1(value, "\n")

\* Lines 75-81: .str.split(..., expand=True) gives one column per segment
\* of the longest row, shorter rows padded with nulls, and no column at all
\* for a column without values; columns 0 and 1 are renamed Player and
\* Position; Position is added, all null, when absent.  A table without
\* rows so gives split_cols the one column Position.
SplitCols(values) ==
    LET parts == [r \in 1..Len(values) |-> SplitPlayerPosition(values[r])]
        width == IF values = <<>> THEN 0
                 ELSE IF \E r \in 1..Len(parts) : Len(parts[r]) >= 2 THEN 2
                 ELSE 1
        name(k) == IF k = 1 THEN "Player" ELSE "Position"
        expanded ==
            DataFrame([k \in 1..width |-> name(k)],
                      [r \in 1..Len(parts) |->
                          [k \in 1..width |->
                              IF k <= Len(parts[r]) THEN parts[r][k] ELSE NA]])
    IN IF width = 2 THEN expanded
       ELSE DataFrame(expanded.columns \o <<"Position">>,
                      [r \in 1..Len(parts) |-> expanded.rows[r] \o <<NA>>])

\* df.drop(columns=label)
DropColumn(df, label) ==
    LET keep == {j \in 1..Len(df.columns) : df.columns[j] # label}
        pick(row) ==
            LET F[j \in 0..Len(row)] ==
                    IF j = 0 THEN <<>>
                    ELSE IF j \in keep THEN F[j - 1] \o <<row[j]>> ELSE F[j - 1]
            IN F[Len(row)]
    IN DataFrame(pick(df.columns),
                 [r \in 1..Len(df.rows) |-> pick(df.rows[r])])

\* pd.concat([a, b], axis=1) of two frames with the same rows index.
ConcatColumns(a, b) ==
    DataFrame(a.columns \o b.columns,
              [r \in 1..Len(a.rows) |-> a.rows[r] \o b.rows[r]])

LeagueRename(label) ==
    CASE label = "Club" -> "Team"
      [] label = "Injury" -> "Injury Type"
      [] label = "until" -> "Expected Return"
      [] label = "Market Value" -> "Market Value (EUR)"  \* the euro sign
      [] OTHER -> label

\* df.rename(columns={...}, inplace=True), lines 86-94: labels outside the
\* mapping pass through.
RenameLeagueColumns(df) ==
    DataFrame([j \in 1..Len(df.columns) |-> LeagueRename(df.columns[j])], df.rows)

\* Lines 66-98, for a fetched page: locate, read, flatten, split, rename,
\* strip.  df["Player/Position"] raises KeyError when no column has that
\* label, and has no .str accessor when several columns have it.
LeagueFrame(pg, sd, url) ==
    LET table == LocateTable(pg)
    IN IF table = None THEN Raised("RuntimeError", <<url>>, <<>>, None)
       ELSE
       LET raw == table[1]
           df == DataFrame(_flatten_columns(raw.columns), raw.rows)
           pp == ColumnIndexes(df, "Player/Position")
       IN IF pp = {} THEN Raised("KeyError", <<url>>, <<>>, None)
          ELSE IF Cardinality(pp) > 1
          THEN Raised("AttributeError", <<url>>, <<>>, None)
          ELSE
          LET j == CHOOSE k \in pp : TRUE
              sc == SplitCols([r \in 1..Len(df.rows) |-> df.rows[r][j]])
              joined == ConcatColumns(DropColumn(df, "Player/Position"), sc)
          IN Returned(ApplyStrip(RenameLeagueColumns(joined), sd),
                      <<url>>, <<>>, Some(sc))

get_league_injuries(cn, slug, code, pg, sd) ==
    LET target == ResolveTarget(cn, slug, code)
    IN IF ~target.ok THEN Raised("ValueError", <<>>, <<>>, None)
       ELSE
       LET url == LeagueUrl(target.slug, target.code)
           failed == FetchError(pg[1])
       IN IF failed # None THEN Raised(failed[1], <<url>>, <<>>, None)
          ELSE LeagueFrame(pg[1], sd, url)

-----------------------------------------------------------------------------
(* 2) get_team_player_urls *)

Letters ==
    {"a", "c", "d", "e", "f", "g", "h", "i", "k", "l", "m", "n", "o", "p",
     "r", "s", "t", "u", "v", "x", "z"}

\* urlparse(url).scheme: the letters before the first ":", "" when the text
\* before it is not a scheme.
UrlScheme(url) ==
    LET k == IndexOf(url, <<":">>)
    IN IF k > 1 /\ \A j \in 1..(k - 1) : url[j] \in Letters
       THEN SubSeq(url, 1, k - 1) ELSE <<>>

\* The text after the scheme's ":" (the whole text when there is no scheme).
AfterScheme(url) ==
    IF UrlScheme(url) = <<>> THEN url
    ELSE SubSeq(url, Len(UrlScheme(url)) + 2, Len(url))

\* urlparse(url).netloc: what follows "//" up to the next "/", "?" or "#".
UrlNetloc(url) ==
    LET rest == AfterScheme(url)
    IN IF ~StartsWith(rest, <<"/", "/">>) THEN <<>>
       ELSE LET body == SubSeq(rest, 3, Len(rest))
                stops == {k \in 1..Len(body) : body[k] \in {"/", "?", "#"}}
            IN IF stops = {} THEN body
               ELSE SubSeq(body, 1, (CHOOSE k \in stops :
                                        \A j \in stops : k <= j) - 1)

\* root = f"{urlparse(team_url).scheme}://{urlparse(team_url).netloc}"
RootOf(url) == UrlScheme(url) \o <<":", "/", "/">> \o UrlNetloc(url)

\* urljoin(root, ref) for a root without path and a ref without dot
\* segments: an empty ref gives the root; a ref with its own scheme and
\* host is kept; a ref starting with "//" takes the root's scheme; a ref
\* starting with "/" replaces the path; any other ref is a path under "/".
UrlJoin(root, ref) ==
    IF ref = <<>> THEN root
    ELSE IF UrlScheme(ref) # <<>> THEN ref
    ELSE IF StartsWith(ref, <<"/", "/">>) THEN UrlScheme(root) \o <<":">> \o ref
    ELSE IF ref[1] = "/" THEN root \o ref
    ELSE root \o <<"/">> \o ref

PROFIL_SPIELER ==
    <<"/", "p", "r", "o", "f", "i", "l", "/",
      "s", "p", "i", "e", "l", "e", "r", "/">>

\* soup.select("a[href*='/profil/spieler/']"): the hrefs of the anchors
\* whose href contains the pattern, in document order.
SelectAnchors(hrefs) ==
    LET F[k \in 0..Len(hrefs)] ==
            IF k = 0 THEN <<>>
            ELSE IF Contains(hrefs[k], PROFIL_SPIELER)
            THEN F[k - 1] \o <<hrefs[k]>> ELSE F[k - 1]
    IN F[Len(hrefs)]

\* Faulty variant of StripQuery: the query string is kept.
KeepQuery(href) == href

\* a["href"].split("?")[0]
StripQuery(href) == BeforeFirst(href, "?")

\* {urljoin(root, a["href"].split("?")[0]) for a in anchors}
UrlSet(anchors, root) ==
    {UrlJoin(root, StripQuery(anchors[k])) : k \in 1..Len(anchors)}

\* sorted(urls): ascending, one entry per element of the set.
RECURSIVE Sorted(_)
Sorted(S) ==
    IF S = {} THEN <<>>
    ELSE LET m == CHOOSE x \in S : \A y \in S \ {x} : LexLess(x, y)
         IN <<m>> \o Sorted(S \ {m})

get_team_player_urls(url, secs, pg) ==
    LET failed == FetchError(pg[1])
    IN IF failed # None THEN Raised(failed[1], <<url>>, <<>>, None)
       ELSE
       LET anchors == SelectAnchors(pg[1].anchors)
           urls == UrlSet(anchors, RootOf(url))
       IN IF SleepError(secs) # None
          THEN Raised(SleepError(secs)[1], <<url>>, <<secs>>, None)
          ELSE Returned(Sorted(urls), <<url>>, <<secs>>, None)

-----------------------------------------------------------------------------
(* 3) get_player_injury_history *)

PROFIL == <<"/", "p", "r", "o", "f", "i", "l", "/">>

VERLETZUNGEN ==
    <<"/", "v", "e", "r", "l", "e", "t", "z", "u", "n", "g", "e", "n", "/">>

\* re.sub(r"/profil/", "/verletzungen/", player_url.rstrip("/"))
InjuryUrl(url) == ReplaceAll(RStrip(url, "/"), PROFIL, VERLETZUNGEN)

HistoryRename(label) ==
    CASE label = "From" -> "Start"
      [] label = "Until" -> "End"
      [] label = "Days" -> "Days Missed"
      [] label = "Games missed" -> "Games Missed"
      [] label = "Matches missed" -> "Games Missed"
      [] OTHER -> label

\* df.rename(columns={...}, inplace=True), lines 146-155.
RenameHistoryColumns(df) ==
    DataFrame([j \in 1..Len(df.columns) |-> HistoryRename(df.columns[j])], df.rows)

\* df.insert(0, label, value): a new first column holding value in every row.
InsertFirst(df, label, value) ==
    DataFrame(<<label>> \o df.columns,
              [r \in 1..Len(df.rows) |-> <<value>> \o df.rows[r]])

\* df[label] = value: a new last column holding value in every row (no
\* column of the frame has that label).
AssignColumn(df, label, value) ==
    DataFrame(df.columns \o <<label>>,
              [r \in 1..Len(df.rows) |-> df.rows[r] \o <<value>>])

\* soup.select_one("h1").get_text(strip=True)
HeadingText(h1) == StripWs(h1)

\* Lines 138-162, for a fetched page.  soup.select_one("h1") is None on a
\* page without heading (AttributeError); df.insert refuses a label the
\* frame already has (ValueError).
HistoryFrame(url, pg, sd, fetched) ==
    LET table == LocateTable(pg)
    IN IF table = None THEN Raised("RuntimeError", <<fetched>>, <<>>, None)
       ELSE
       LET raw == table[1]
           df == RenameHistoryColumns(
                     DataFrame(_flatten_columns(raw.columns), raw.rows))
       IN IF pg.h1 = None THEN Raised("AttributeError", <<fetched>>, <<>>, None)
          ELSE IF ColumnIndexes(df, "Player") # {}
          THEN Raised("ValueError", <<fetched>>, <<>>, None)
          ELSE
          LET named == InsertFirst(df, "Player", HeadingText(pg.h1[1]))
              stamped == AssignColumn(named, "Profile URL", url)
          IN Returned(ApplyStrip(stamped, sd), <<fetched>>, <<>>, None)

get_player_injury_history(url, pg, sd) ==
    LET injury_url == InjuryUrl(url)
        failed == FetchError(pg[1])
    IN IF failed # None THEN Raised(failed[1], <<injury_url>>, <<>>, None)
       ELSE HistoryFrame(url, pg[1], sd, injury_url)

-----------------------------------------------------------------------------
(* 4) get_multiple_players_injury_history *)

\* The exception classes the calls of the model raise: subclasses of
\* Exception all.
ExceptionSubclasses ==
    {"ConnectionError", "HTTPError", "RuntimeError", "AttributeError",
     "ValueError", "KeyError", "InvalidIndexError"}

\* except Exception as ex
BatchCatches(cls) == cls \in ExceptionSubclasses

\* Faulty variant of SleepsAfter: the sleep follows every call.
SleepsAlways(r) == TRUE

\* time.sleep(pause) is the statement after frames.append(...) in the try
\* block: it is reached when get_player_injury_history returned.
SleepsAfter(r) == r.outcome = "returned"

\* The labels of the frames in order of first appearance.
RECURSIVE UnionColumns(_, _)
UnionColumns(fs, seen) ==
    IF fs = <<>> THEN seen
    ELSE LET cols == Head(fs).columns
             F[k \in 0..Len(cols)] ==
                 IF k = 0 THEN seen
                 ELSE IF cols[k] \in Range(F[k - 1]) THEN F[k - 1]
                 ELSE Append(F[k - 1], cols[k])
         IN UnionColumns(Tail(fs), F[Len(cols)])

\* Some label occurs twice among the columns of the frame.
HasDuplicateLabels(f) ==
    \E a, b \in 1..Len(f.columns) : a # b /\ f.columns[a] = f.columns[b]

\* All frames of the list carry the same column index.
SameColumns(fs) == \A n \in 1..Len(fs) : fs[n].columns = fs[1].columns

\* pd.concat aligns the frames on the combined column index: the common
\* index when all frames carry the same one, else the union without
\* repetition.  A frame whose index differs from the combined one is
\* reindexed, and reindexing a frame with a repeated label raises
\* InvalidIndexError.
ConcatRaises(fs) ==
    ~SameColumns(fs) /\ \E n \in 1..Len(fs) : HasDuplicateLabels(fs[n])

\* pd.concat(frames, ignore_index=True) when it does not raise: the rows of
\* the frames in list order; under the common column index as they are,
\* else under the union of the columns, null where a frame lacks a column.
ConcatFrames(fs) ==
    LET cols == IF SameColumns(fs) THEN fs[1].columns
                ELSE UnionColumns(fs, <<>>)
        widen(f, row) ==
            IF f.columns = cols THEN row
            ELSE [k \in 1..Len(cols) |->
                    IF ColumnIndexes(f, cols[k]) = {} THEN NA
                    ELSE row[CHOOSE j \in ColumnIndexes(f, cols[k]) : TRUE]]
    IN DataFrame(cols,
                 Flatten([n \in 1..Len(fs) |->
                             [r \in 1..Len(fs[n].rows) |->
                                 widen(fs[n], fs[n].rows[r])]]))

\* Faulty variant of BatchResult: only the first frame is returned.
FirstFrameOnly(fs) == IF fs # <<>> THEN Head(fs) ELSE EmptyDataFrame

\* return pd.concat(frames, ignore_index=True) if frames else pd.DataFrame()
\* The value returned, when pd.concat does not raise.
BatchResult(fs) == IF fs # <<>> THEN ConcatFrames(fs) ELSE EmptyDataFrame

\* The return statement is outside the try block: what pd.concat raises
\* reaches the caller.
BatchRaises(fs) == fs # <<>> /\ ConcatRaises(fs)

-----------------------------------------------------------------------------
(* Inputs: the arguments of the calls and the pages the site serves *)

\* Sequences over S of length lo..hi.
SeqsOf(S, lo, hi) == UNION {[1..n -> S] : n \in lo..hi}

HTTPS == <<"h", "t", "t", "p", "s", ":", "/", "/">>
HOST == <<"t", "m", ".", "u", "s">>

\* "https://tm.us/a/profil/spieler/1"
P1 == HTTPS \o HOST \o <<"/", "a">> \o PROFIL_SPIELER \o <<"1">>
\* "https://tm.us/a/profil/spieler/2"
P2 == HTTPS \o HOST \o <<"/", "a">> \o PROFIL_SPIELER \o <<"2">>
\* P1 with a trailing slash, and P1 after a leading blank (the transport
\* ignores leading whitespace of a URL).
P1Slash == P1 \o <<"/">>
P1Blank == <<" ">> \o P1

HistoryUrls == {P1, P1Slash, P1Blank, P2}
BatchUrls == {P1, P2}
Pauses == {-1, 0, 1}
\* The pauses of a batch run: the default of the signature and a negative
\* one.
BatchPauses == {-1, 1}
StringDtypes == {"object", "str"}

\* "https://tm.us/fc/startseite/verein/1" and "http://tm.de"
T1 ==
    HTTPS \o HOST \o
    <<"/", "f", "c", "/", "s", "t", "a", "r", "t", "s", "e", "i", "t", "e",
      "/", "v", "e", "r", "e", "i", "n", "/", "1">>
T2 == <<"h", "t", "t", "p", ":", "/", "/", "t", "m", ".", "d", "e">>
TeamUrls == {T1, T2}

A123 == PROFIL_SPIELER \o <<"1", "2", "3">>
A123Q == A123 \o <<"?", "x", "=", "1">>
\* "fc/profil/spieler/45", a relative path
A45 == <<"f", "c">> \o PROFIL_SPIELER \o <<"4", "5">>
\* "https://other.mx/profil/spieler/9", another site
AOther ==
    HTTPS \o <<"o", "t", "h", "e", "r", ".", "m", "x">> \o PROFIL_SPIELER \o <<"9">>
\* "//cdn.tm.us/profil/spieler/8", a scheme-relative link
ACdn == <<"/", "/", "c", "d", "n", ".">> \o HOST \o PROFIL_SPIELER \o <<"8">>
\* "/a?next=/profil/spieler/7", the pattern in the query string only
ANext == <<"/", "a", "?", "n", "e", "x", "t", "=">> \o PROFIL_SPIELER \o <<"7">>
\* "/kader/verein/1", no player profile
AKader ==
    <<"/", "k", "a", "d", "e", "r", "/", "v", "e", "r", "e", "i", "n", "/", "1">>

Hrefs == {A123, A123Q, A45, AOther, ACdn, ANext, AKader}

Knee == <<"K", "n", "e", "e">>
KneePadded == <<" ", "K", "n", "e", "e", " ">>
Flu == <<"F", "l", "u">>
CellTexts == {Knee, KneePadded, Flu}

\* "J. Doe", "Doe\nMid", "Doe\nMid\nX", "Doe \n Mid"
JDoe == <<"J", ".", " ", "D", "o", "e">>
DoeMid == <<"D", "o", "e", "\n", "M", "i", "d">>
DoeMidX == <<"D", "o", "e", "\n", "M", "i", "d", "\n", "X">>
DoePaddedMid == <<"D", "o", "e", " ", "\n", " ", "M", "i", "d">>
PlayerPositions == {JDoe, DoeMid, DoeMidX, DoePaddedMid}

Headings == {None, Some(JDoe), Some(<<" ">> \o JDoe \o <<"\n">>)}

FlatHeader(labels) == [multi |-> FALSE, lvl0 |-> labels, lvl1 |-> <<>>]
MultiHeader(pairs) ==
    [multi |-> TRUE,
     lvl0 |-> [j \in 1..Len(pairs) |-> pairs[j][1]],
     lvl1 |-> [j \in 1..Len(pairs) |-> pairs[j][2]]]

\* Headers of a history table.  A flat header has distinct labels; a
\* MultiIndex has distinct (level 0, level 1) pairs.
HistoryStd == FlatHeader(<<"Injury", "From", "Until", "Days", "Games missed">>)
HistoryBoth == FlatHeader(<<"Injury", "Games missed", "Matches missed">>)
HistoryPlayer == FlatHeader(<<"Player", "Injury">>)
HistoryMulti ==
    MultiHeader(<< <<"Injury", Some("")>>, <<"Absence", Some("From")>>,
                   <<"Absence", Some("Until")>>, <<"Missed", None>> >>)
HistoryShared ==
    MultiHeader(<< <<"Injury", None>>, <<"Club A", Some("Days")>>,
                   <<"Club B", Some("Days")>> >>)
HistoryHeaders ==
    {HistoryStd, HistoryBoth, HistoryPlayer, HistoryMulti, HistoryShared}

LeagueStd == FlatHeader(<<"Player/Position", "Club", "Injury">>)
LeagueNoPlayer == FlatHeader(<<"Club", "Injury", "until">>)
LeagueMulti ==
    MultiHeader(<< <<"Player", Some("Player/Position")>>, <<"Club", Some("")>>,
                   <<"until", None>>, <<"Value", Some("Market Value")>> >>)
LeagueShared ==
    MultiHeader(<< <<"Player/Position", None>>, <<"Info", Some("Injury")>>,
                   <<"Return", Some("Injury")>> >>)
LeagueHeaders == {LeagueStd, LeagueNoPlayer, LeagueMulti, LeagueShared}

\* The frame read from a table with this header and one row per element of
\* texts: the "Player/Position" cell of a row is that text, a "Days" cell is
\* a number, any other cell is text.
MakeTable(header, texts, other) ==
    LET labels == _flatten_columns(header)
    IN [columns |-> header,
        rows |-> [r \in 1..Len(texts) |->
                    [j \in 1..Len(labels) |->
                        IF labels[j] = "Days" THEN <<"int64:7">>
                        ELSE IF labels[j] = "Player/Position" THEN texts[r]
                        ELSE IF other = None THEN texts[r] ELSE other[1]]]]

Page(status, table, h1, anchors) ==
    [status |-> status, table |-> table, h1 |-> h1, anchors |-> anchors]

ErrorPages ==
    {Page(st, None, None, <<>>) : st \in {"http_error", "network_error"}}

HistoryPages ==
    ErrorPages \cup {Page("ok", None, Some(JDoe), <<>>)} \cup
    {Page("ok", Some(MakeTable(h, ts, None)), h1, <<>>) :
        h \in HistoryHeaders, ts \in SeqsOf(CellTexts, 0, MaxRows),
        h1 \in Headings}

\* The rows of the history tables served in a batch run.
BatchRows(h) ==
    IF h = HistoryStd THEN {<<>>, <<Flu, Knee>>} ELSE {<<Knee>>}

\* The pages served in a batch run: those of HistoryPages, with every
\* header, one failing fetch, fewer row contents and one heading.
BatchPages ==
    {Page("http_error", None, None, <<>>)} \cup
    {Page("ok", None, Some(JDoe), <<>>)} \cup
    {Page("ok", Some(MakeTable(HistoryStd, <<Knee>>, None)), None, <<>>)} \cup
    UNION {{Page("ok", Some(MakeTable(h, ts, None)), Some(JDoe), <<>>) :
               ts \in BatchRows(h)} : h \in HistoryHeaders}

LeaguePages ==
    ErrorPages \cup {Page("ok", None, None, <<>>)} \cup
    {Page("ok", Some(MakeTable(h, ts, Some(KneePadded))), None, <<>>) :
        h \in LeagueHeaders, ts \in SeqsOf(PlayerPositions, 0, MaxRows)}

TeamPages ==
    ErrorPages \cup
    {Page("ok", None, None, hs) : hs \in SeqsOf(Hrefs, 0, MaxAnchors)}

CountryNames == {None, Some(""), Some("Spain"), Some("Germany"), Some("Atlantis")}
LeagueSlugs == {None, Some(""), Some("eredivisie")}
LeagueCodes == {None, Some("NL1")}

-----------------------------------------------------------------------------
(* The state machine *)

Idle ==
    /\ pc = "start"
    /\ page = None
    /\ outcome = "none"
    /\ error = ""
    /\ result = None
    /\ split_cols = None
    /\ gets = <<>>
    /\ events = <<>>
    /\ log = <<>>
    /\ i = 0
    /\ frames = <<>>
    /\ attempts = <<>>
    /\ outcomes = <<>>

InitLeague ==
    /\ op = "league"
    /\ country_name \in CountryNames
    /\ league_slug \in LeagueSlugs
    /\ league_code \in LeagueCodes
    /\ string_dtype \in StringDtypes
    /\ team_url = <<>> /\ player_url = <<>> /\ player_urls = <<>> /\ pause = 1

InitRoster ==
    /\ op = "roster"
    /\ team_url \in TeamUrls
    /\ pause \in Pauses
    /\ string_dtype = "object"
    /\ country_name = None /\ league_slug = None /\ league_code = None
    /\ player_url = <<>> /\ player_urls = <<>>

InitHistory ==
    /\ op = "history"
    /\ player_url \in HistoryUrls
    /\ string_dtype \in StringDtypes
    /\ country_name = None /\ league_slug = None /\ league_code = None
    /\ team_url = <<>> /\ player_urls = <<>> /\ pause = 1

\* The pages of a batch run hold no padded text, so the dtype of a text
\* column makes no difference to a run.
InitBatch ==
    /\ op = "batch"
    /\ player_urls \in SeqsOf(BatchUrls, 0, MaxUrls)
    /\ pause \in BatchPauses
    /\ string_dtype = "object"
    /\ country_name = None /\ league_slug = None /\ league_code = None
    /\ team_url = <<>> /\ player_url = <<>>

Init == Idle /\ (InitLeague \/ InitRoster \/ InitHistory \/ InitBatch)

args == <<op, country_name, league_slug, league_code, team_url, player_url,
          player_urls, pause, string_dtype>>

GetEvent(url) == [call |-> "get", arg |-> url]
SleepEvent(secs) == [call |-> "sleep", arg |-> secs]

\* The trace of one single-item call: its GETs, then its sleep calls.
CallEvents(r) ==
    [k \in 1..Len(r.gets) |-> GetEvent(r.gets[k])] \o
    [k \in 1..Len(r.sleeps) |-> SleepEvent(r.sleeps[k])]

Finish(r, pg) ==
    /\ pc' = "done"
    /\ page' = pg
    /\ outcome' = r.outcome
    /\ error' = r.error
    /\ result' = r.result
    /\ split_cols' = r.split_cols
    /\ gets' = r.gets
    /\ events' = CallEvents(r)
    /\ UNCHANGED <<args, log, i, frames, attempts, outcomes>>

\* get_league_injuries(country_name=..., league_slug=..., league_code=...).
\* A call whose target does not resolve is served no page.
CallLeague ==
    /\ op = "league" /\ pc = "start"
    /\ \E pg \in IF ResolveTarget(country_name, league_slug, league_code).ok
                 THEN {Some(p) : p \in LeaguePages} ELSE {None} :
          Finish(get_league_injuries(country_name, league_slug, league_code,
                                     pg, string_dtype), pg)

\* get_team_player_urls(team_url, pause=pause)
CallRoster ==
    /\ op = "roster" /\ pc = "start"
    /\ \E p \in TeamPages :
          Finish(get_team_player_urls(team_url, pause, Some(p)), Some(p))

\* get_player_injury_history(player_url)
CallHistory ==
    /\ op = "history" /\ pc = "start"
    /\ \E p \in HistoryPages :
          Finish(get_player_injury_history(player_url, Some(p), string_dtype),
                 Some(p))

\* get_multiple_players_injury_history: lines 175-176.
BatchStart ==
    /\ op = "batch" /\ pc = "start"
    /\ pc' = "loop"
    /\ UNCHANGED <<args, page, outcome, error, result, split_cols, gets,
                   events, log, i, frames, attempts, outcomes>>

\* One iteration of the loop, lines 177-182: the call, and when it returned
\* the append and the sleep; the except clause prints the warning for
\* whatever the try block raised.  An exception the clause does not catch
\* ends the run.
BatchIter ==
    /\ op = "batch" /\ pc = "loop" /\ i < Len(player_urls)
    /\ \E p \in BatchPages :
          LET url == player_urls[i + 1]
              r == get_player_injury_history(url, Some(p), string_dtype)
              slept == SleepsAfter(r)
              raised == IF r.outcome = "raised" THEN Some(r.error)
                        ELSE IF slept THEN SleepError(pause) ELSE None
              escaped == raised # None /\ ~BatchCatches(raised[1])
          IN /\ page' = Some(p)
             /\ attempts' = Append(attempts, url)
             /\ outcomes' = Append(outcomes,
                                   [url |-> url, ok |-> r.outcome = "returned",
                                    error |-> r.error, df |-> r.result])
             /\ gets' = gets \o r.gets
             /\ events' = events \o CallEvents(r)
                          \o (IF slept THEN <<SleepEvent(pause)>> ELSE <<>>)
             /\ frames' = IF r.outcome = "returned"
                          THEN Append(frames, r.result[1]) ELSE frames
             /\ log' = IF raised # None /\ ~escaped THEN Append(log, url) ELSE log
             /\ i' = i + 1
             /\ pc' = IF escaped THEN "done" ELSE "loop"
             /\ outcome' = IF escaped THEN "raised" ELSE outcome
             /\ error' = IF escaped THEN raised[1] ELSE error
             /\ UNCHANGED <<args, result, split_cols>>

\* Line 183: the table is returned, or the exception of pd.concat reaches
\* the caller.
BatchReturn ==
    /\ op = "batch" /\ pc = "loop" /\ i = Len(player_urls)
    /\ pc' = "done"
    /\ outcome' = IF BatchRaises(frames) THEN "raised" ELSE "returned"
    /\ error' = IF BatchRaises(frames) THEN "InvalidIndexError" ELSE error
    /\ result' = IF BatchRaises(frames) THEN None
                  ELSE Some(BatchResult(frames))
    /\ UNCHANGED <<args, page, split_cols, gets, events, log, i,
                   frames, attempts, outcomes>>

Next ==
    \/ CallLeague
    \/ CallRoster
    \/ CallHistory
    \/ BatchStart
    \/ BatchIter
    \/ BatchReturn

Spec == Init /\ [][Next]_vars

-----------------------------------------------------------------------------
(* Properties *)

IsOk(o) == o.ok
IsFailed(o) == ~o.ok
BatchDone == op = "batch" /\ pc = "done"

\* C1 as stated: in a batch run every URL of the input list is handed to
\* the extractor exactly once, in input order, with one GET each (no
\* retry); the loop never ends before the last URL, whatever failed, and
\* the call returns normally.  The last part fails: pd.concat at line 183
\* raises when a frame with a repeated column label meets a frame with
\* other columns.
C1_EachUrlOnceInOrder ==
    op = "batch" =>
        /\ i <= Len(player_urls)
        /\ attempts = SubSeq(player_urls, 1, i)
        /\ Len(gets) = Len(attempts)
        /\ \A k \in 1..Len(gets) :
              gets[k] = InjuryUrl(attempts[k])
        /\ pc = "done" =>
              /\ outcome = "returned"
              /\ attempts = player_urls

\* C2: the table a batch run returns holds the rows of the tables of the
\* URLs whose extraction succeeded, in input order and each table's rows in
\* their order, under those tables' columns; with no success it is the
\* empty table, and it is never None.  When the tables differ in their
\* columns the result has every column of every table once, and a row has
\* the cells of its source row under the source's labels and null
\* elsewhere.
C2_ResultIsConcatenationOfSuccesses ==
    (BatchDone /\ outcome = "returned") =>
        LET oks == SelectSeq(outcomes, IsOk)
            src == Flatten([k \in 1..Len(oks) |->
                       [r \in 1..Len(oks[k].df[1].rows) |->
                           [f |-> oks[k].df[1], r |-> r]]])
            out == result[1]
        IN /\ result # None
           /\ IF oks = <<>> THEN out = [columns |-> <<>>, rows |-> <<>>]
              ELSE IF \A k \in 1..Len(oks) :
                         oks[k].df[1].columns = oks[1].df[1].columns
              THEN /\ out.columns = oks[1].df[1].columns
                   /\ out.rows =
                         Flatten([k \in 1..Len(oks) |-> oks[k].df[1].rows])
              ELSE /\ Range(out.columns) =
                         UNION {Range(oks[k].df[1].columns) : k \in 1..Len(oks)}
                   /\ \A a, b \in 1..Len(out.columns) :
                         a # b => out.columns[a] # out.columns[b]
                   /\ Len(out.rows) = Len(src)
                   /\ \A n \in 1..Len(src) : \A c \in 1..Len(out.columns) :
                         LET f == src[n].f
                             js == {j \in 1..Len(f.columns) :
                                       f.columns[j] = out.columns[c]}
                         IN IF js = {} THEN out.rows[n][c] = <<"<NA>">>
                            ELSE \A j \in js :
                                    out.rows[n][c] = f.rows[src[n].r][j]

\* C2 witness: URL 1 yields two rows, URL 2 fails, URL 3 yields one row
\* under other columns, and the call returns three rows.
C2_Witness ==
    /\ BatchDone /\ outcome = "returned" /\ Len(outcomes) = 3
    /\ outcomes[1].ok /\ ~outcomes[2].ok /\ outcomes[3].ok
    /\ Len(outcomes[1].df[1].rows) = 2
    /\ Len(outcomes[3].df[1].rows) = 1
    /\ outcomes[1].df[1].columns # outcomes[3].df[1].columns
    /\ Len(result[1].rows) = 3

\* C3: a finished batch run has logged exactly one warning per URL whose
\* extraction failed, naming that URL, and none for a URL whose extraction
\* succeeded.
C3_OneWarningPerFailedUrl ==
    BatchDone =>
        log = [k \in 1..Len(SelectSeq(outcomes, IsFailed)) |->
                  SelectSeq(outcomes, IsFailed)[k].url]

\* C4: get_league_injuries with an unmapped country name, or with no
\* country name and not both slug and code, raises ValueError without
\* having issued a GET; a mapped country name makes the one GET go to
\* {base}/{slug}/verletztespieler/wettbewerb/{code} of its mapped pair.
C4_TargetValidatedBeforeGet ==
    (op = "league" /\ pc = "done") =>
        /\ (Truthy(country_name) /\ country_name[1] \notin
               {"Spain", "England", "Italy", "Germany", "France"}) =>
              (outcome = "raised" /\ error = "ValueError" /\ gets = <<>>)
        /\ (~Truthy(country_name) /\ ~(Truthy(league_slug) /\ Truthy(league_code))) =>
              (outcome = "raised" /\ error = "ValueError" /\ gets = <<>>)
        /\ country_name = Some("Spain") =>
              gets = <<"https://www.transfermarkt.us/laliga/verletztespieler/wettbewerb/ES1">>
        /\ country_name = Some("Germany") =>
              gets = <<"https://www.transfermarkt.us/bundesliga/verletztespieler/wettbewerb/L1">>
        /\ gets = <<>> => page = None

\* C4 witness: the unmapped country "Atlantis" given together with a slug
\* and a code, rejected.
C4_Witness ==
    /\ op = "league" /\ pc = "done"
    /\ country_name = Some("Atlantis")
    /\ league_slug = Some("eredivisie") /\ league_code = Some("NL1")
    /\ outcome = "raised"

\* C5: every row of a table get_player_injury_history returns has the same
\* Player value in the first column, and in the last column, Profile URL,
\* the player_url argument exactly as passed.
C5_ProfileUrlIsArgument ==
    (op = "history" /\ outcome = "returned") =>
        LET df == result[1]
            n == Len(df.columns)
        IN /\ df.columns[1] = "Player"
           /\ df.columns[n] = "Profile URL"
           /\ \A r \in 1..Len(df.rows) :
                 /\ df.rows[r][1] = df.rows[1][1]
                 /\ df.rows[r][n] = player_url

\* C6: the list get_team_player_urls returns is strictly ascending in
\* lexicographic order (so without duplicates) and no entry keeps a query
\* string; a page with the anchors /profil/spieler/123?x=1 and
\* /profil/spieler/123 gives exactly one entry for player 123, the absolute
\* URL on the team page's scheme and host.
C6_SortedUniqueNoQuery ==
    (op = "roster" /\ outcome = "returned") =>
        LET us == result[1]
            expected == (IF team_url = T1 THEN HTTPS \o HOST ELSE T2) \o A123
        IN /\ \A a, b \in 1..Len(us) : a < b => LexLess(us[a], us[b])
           /\ \A a \in 1..Len(us) : "?" \notin Range(us[a])
           /\ ({A123, A123Q} \subseteq Range(page[1].anchors)) =>
                 /\ Cardinality({a \in 1..Len(us) : us[a] = expected}) = 1
                 /\ \A a \in 1..Len(us) :
                       Contains(us[a], A123) => us[a] = expected

\* C6 witness: the page holds exactly the two anchors of player 123, with
\* the query string first, and one URL is returned.
C6_Witness ==
    /\ op = "roster" /\ outcome = "returned"
    /\ page[1].anchors = <<A123Q, A123>>
    /\ Len(result[1]) = 1

\* C7: the column names of every table get_league_injuries and
\* get_player_injury_history return are pairwise distinct.
C7_ColumnNamesDistinct ==
    (op \in {"league", "history"} /\ outcome = "returned") =>
        \A a, b \in 1..Len(result[1].columns) :
            a # b => result[1].columns[a] # result[1].columns[b]

\* C8: a single-item call whose fetch fails (HTTP error status or network
\* failure) or, for the league and history extractors, whose page has no
\* table of class "items", raises and returns nothing; a call returns a
\* value exactly when it did not raise; the batch driver goes on to the
\* last URL although extractions failed, and what it raises is never the
\* error of a fetch or of a missing table.
C8_SingleCallsAllOrNothing ==
    /\ (op \in {"league", "roster", "history"} /\ pc = "done") =>
          /\ outcome \in {"returned", "raised"}
          /\ (outcome = "returned") <=> (result # None)
          /\ page # None =>
                /\ page[1].status = "http_error" =>
                      (outcome = "raised" /\ error = "HTTPError")
                /\ page[1].status = "network_error" =>
                      (outcome = "raised" /\ error = "ConnectionError")
                /\ (op # "roster" /\ page[1].status = "ok"
                      /\ page[1].table = None) =>
                      (outcome = "raised" /\ error = "RuntimeError")
    /\ BatchDone =>
          /\ attempts = player_urls
          /\ (outcome = "returned") <=> (result # None)
          /\ error \notin {"HTTPError", "ConnectionError", "RuntimeError"}

\* C8 witness: a history page fetched with success that has no table of
\* class "items".
C8_Witness ==
    /\ op = "history" /\ pc = "done"
    /\ page[1].status = "ok" /\ page[1].table = None
    /\ outcome = "raised"

\* The "Player/Position" values of the frame read from the league page.
PlayerPositionValues ==
    LET raw == page[1].table[1]
        labels == _flatten_columns(raw.columns)
        j == CHOOSE k \in 1..Len(labels) : labels[k] = "Player/Position"
    IN [r \in 1..Len(raw.rows) |-> raw.rows[r][j]]

\* C9: get_league_injuries splits each "Player/Position" value at its first
\* newline only: Player is the text before it and Position all the text
\* after it; a value without newline gives Player = the value and a null
\* Position, and the call still returns.  The returned table ends with
\* these two columns, their text whitespace-trimmed or unchanged.  (A table
\* without rows has no value to split: split_cols and the returned table
\* then hold Position without Player.)
C9_SplitAtFirstNewlineOnly ==
    (op = "league" /\ split_cols # None) =>
        LET sc == split_cols[1]
            values == PlayerPositionValues
            n == Len(result[1].columns)
        IN /\ outcome = "returned"
           /\ sc.columns = IF values = <<>> THEN <<"Position">>
                           ELSE <<"Player", "Position">>
           /\ Len(sc.rows) = Len(values)
           /\ SubSeq(result[1].columns, n - Len(sc.columns) + 1, n) = sc.columns
           /\ \A r \in 1..Len(values) :
                 LET v == values[r]
                     nl == {k \in 1..Len(v) : v[k] = "\n"}
                 IN /\ IF nl = {} THEN sc.rows[r] = <<v, NA>>
                       ELSE LET k == CHOOSE x \in nl : \A y \in nl : x <= y
                            IN sc.rows[r] = <<SubSeq(v, 1, k - 1),
                                              SubSeq(v, k + 1, Len(v))>>
                    /\ \A c \in 1..2 :
                          result[1].rows[r][n - 2 + c] \in
                              {sc.rows[r][c], StrStrip(sc.rows[r][c])}

\* C9 witness: a table with a value holding two newlines and a value
\* holding none.
C9_Witness ==
    /\ op = "league" /\ split_cols # None
    /\ PlayerPositionValues = <<DoeMidX, JDoe>>

\* C10 as stated: between any two consecutive fetches of a batch run a sleep
\* call takes place, so no fetch directly follows a fetch.
C10_SleepBetweenAnyTwoFetches ==
    op = "batch" =>
        \A k \in 1..(Len(events) - 1) :
            events[k].call = "get" => events[k + 1].call = "sleep"

\* C10 amended: in a batch run each fetch is followed by a time.sleep(pause)
\* call exactly when the extraction of its URL succeeded; after a failed
\* extraction the next fetch follows with no sleep call between.
C10_SleepOnlyAfterSuccess ==
    op = "batch" =>
        events = Flatten([k \in 1..Len(outcomes) |->
                    <<GetEvent(gets[k])>> \o
                    (IF outcomes[k].ok THEN <<SleepEvent(pause)>> ELSE <<>>)])

\* C10 witness: three fetches, the second extraction failing: two sleep
\* calls, none between fetch 2 and fetch 3.
C10_Witness ==
    /\ BatchDone /\ Len(outcomes) = 3
    /\ outcomes[1].ok /\ ~outcomes[2].ok /\ outcomes[3].ok
    /\ Len(events) = 5
    /\ events[3].call = "get" /\ events[4].call = "get"

=============================================================================
